---- MODULE Spec2Model ----
(***************************************************************************)
(* The client side of the real-estate assistant, one component at a time:  *)
(* the session orchestrator (frontend/src/App.tsx: the React state of the  *)
(* App component, the WebSocket message handler and the two user actions), *)
(* the Facebook post form (PostCreator) and the Facebook integration page. *)
(*                                                                         *)
(* Every handler runs to completion before the next one starts (React      *)
(* event handlers on the single UI thread), so each handler is one action. *)
(* A JS object is a function whose DOMAIN is the set of its keys; a text   *)
(* is a sequence of tokens, so that a template literal is a concatenation  *)
(* and String.trim can be computed.  `sent' records the calls made to      *)
(* WebSocket.send, in order.  The DetailsForm component keeps what the     *)
(* user typed in its own state, which nothing but its submit handler       *)
(* reads: the form's content is the input of that handler.                 *)
(*                                                                         *)
(* The components share no state but the post list, so each has its own    *)
(* specification, in which the variables of the others keep their initial  *)
(* values: Spec (App), SpecPostCreator, SpecPage, and SpecForms for what   *)
(* is said of App and of the post form together.                           *)
(***************************************************************************)
EXTENDS Integers, Sequences, FiniteSets, TLC

VARIABLES messages, input, showDetailsForm, workflowState, loadingStates, sent

vars == <<messages, input, showDetailsForm, workflowState, loadingStates, sent>>

\* The post form of the Facebook page (components/facebook/PostCreator): its
\* React state, the requests it has in flight, and the post list its
\* onNewPost callback writes.  An async handler is one action up to its first
\* await and one action per response: what follows an await runs when the
\* response arrives, without any user event in between.
VARIABLES content, images, isPosting, connection, pending, posts

postVars == <<content, images, isPosting, connection, pending, posts>>

\* The Facebook integration page (pages/FacebookIntegrationPage), which
\* holds the post list: its React state and the requests it has in flight.
\* For the page, the post form it renders is a request that captures the
\* post list of the render it was submitted in and answers through onNewPost.
VARIABLES status, isLoading, availablePages, pageInfo, requests

pageVars == <<status, isLoading, availablePages, pageInfo, requests>>

allVars == <<vars, postVars, pageVars>>

----------------------------------------------------------------------------
(* Bounds of the model *)

\* the longest chat history explored: a handler that appends a message is
\* not taken once the history holds this many
MaxMessages == 4

\* the most files one selection in the file dialog holds
MaxFiles == 2

\* the longest post list explored: the form is not submitted once the list
\* holds this many
MaxPosts == 2

\* the most requests a component has in flight: the agent id of the route,
\* whose change starts a new check, does not change once this many are unanswered
MaxRequests == 2

----------------------------------------------------------------------------
(* JS objects *)

EmptyObj == [k \in {} |-> FALSE]

Keys(obj) == DOMAIN obj

\* { ...a, ...b }
Spread(a, b) == b @@ a

\* { ...a, [key]: value }
SpreadSet(a, key, value) == (key :> value) @@ a

\* obj[key], where a missing key reads as the falsy `undefined'
Truthy(obj, key) == key \in DOMAIN obj /\ obj[key] = TRUE

\* the property key a missing (undefined) value is converted to
UndefinedKey == "undefined"

----------------------------------------------------------------------------
(* Texts *)

RECURSIVE TrimStart(_)
TrimStart(s) ==
  IF s = <<>> THEN <<>>
  ELSE IF Head(s) = " " THEN TrimStart(Tail(s)) ELSE s

RECURSIVE TrimEnd(_)
TrimEnd(s) ==
  IF s = <<>> THEN <<>>
  ELSE IF s[Len(s)] = " " THEN TrimEnd(SubSeq(s, 1, Len(s) - 1)) ELSE s

\* String.prototype.trim
Trim(s) == TrimEnd(TrimStart(s))

\* what the user types into the idea box: nothing, blanks, an idea with a blank before it
InputTexts == {<<>>, <<" ", " ">>, <<" ", "a">>}

GreetingText == <<"Hi! What's the core idea for your new project or brand?">>
RequestInputText == <<"Branding complete! Now I need a few more details to create the post.">>
DetailsSentText == <<"Here are the property details.">>
AllDoneText == <<"All done!">>
ErrorPrefix == <<"**Error:** ">>

----------------------------------------------------------------------------
(* The stages and the workflow keys the page renders *)

Stages == {"create_branding", "create_visuals", "generate_image",
           "generate_post", "post_to_facebook"}

\* the workflow key each stage's panel shows next to its loading flag
StageKey(stage) ==
  CASE stage = "create_branding"  -> "brand_suggestions"
    [] stage = "create_visuals"   -> "visual_prompts"
    [] stage = "generate_image"   -> "image_path"
    [] stage = "generate_post"    -> "base_post"
    [] stage = "post_to_facebook" -> "post_result"
    [] OTHER -> "none"

DetailFields == {"location", "price", "bedrooms", "features"}
FieldValues == {"", "Pune"}
\* what the form can hold when it is submitted
DetailsInputs == [DetailFields -> FieldValues]

----------------------------------------------------------------------------
(* Inbound payloads: what event.data can be *)

UpdateSteps == {"create_branding", "generate_post"}
WfKeys == {"brand_suggestions", "image_path"}
\* msg.data: no key, one key with either of two values, two keys
DataObjs ==
  {EmptyObj,
   [brand_suggestions |-> "v1"],
   [brand_suggestions |-> "v2"],
   [brand_suggestions |-> "v1", image_path |-> "/images/1.png"]}
ServerTexts == {"boom"}

UpdateMsgs ==
  {[type |-> "update", step |-> s, data |-> d] : s \in UpdateSteps, d \in DataObjs}
MalformedUpdateMsgs ==
  {[type |-> "update", data |-> [brand_suggestions |-> "v1"]],
   [type |-> "update", step |-> "create_branding"]}
RequestInputMsgs == {[type |-> "request_input"]}
ErrorMsgs == {[type |-> "error", message |-> m] : m \in ServerTexts}
FinalMsgs ==
  {[type |-> "final"]} \cup {[type |-> "final", message |-> m] : m \in ServerTexts \cup {""}}
UnknownMsgs == {[type |-> "ping"], [step |-> "create_branding"]}

JsonObjects ==
  UpdateMsgs \cup MalformedUpdateMsgs \cup RequestInputMsgs \cup ErrorMsgs
    \cup FinalMsgs \cup UnknownMsgs

\* event.data: text that is not JSON, the JSON text `null', or a JSON object
Payloads ==
  {[raw |-> "not-json"], [raw |-> "null"]}
    \cup {[raw |-> "object", obj |-> m] : m \in JsonObjects}

\* msg.f, for a field the message may lack
Has(msg, f) == f \in DOMAIN msg
TypeOf(msg) == IF Has(msg, "type") THEN msg.type ELSE UndefinedKey
StepOf(msg) == IF Has(msg, "step") THEN msg.step ELSE UndefinedKey
DataOf(msg) == IF Has(msg, "data") THEN msg.data ELSE EmptyObj
\* `${msg.message}'
MessageText(msg) == IF Has(msg, "message") THEN <<msg.message>> ELSE <<UndefinedKey>>
\* msg.message || 'All done!'
FinalText(msg) ==
  IF Has(msg, "message") /\ msg.message # "" THEN <<msg.message>> ELSE AllDoneText

----------------------------------------------------------------------------
(* The post form: texts, files, replies of the server *)

\* { ...obj, [key]: undefined }: the key reads as undefined, like a missing one
Without(obj, key) == [k \in DOMAIN obj \ {key} |-> obj[k]]

\* what the user types into the post box
ContentTexts == {<<>>, <<" ">>, <<"Sea view">>}

\* a file name is the sequence of its parts between the dots:
\* b.JPG, c.gif, d.pdf, and a file called png
FileNames == {<<"b", "JPG">>, <<"c", "gif">>, <<"d", "pdf">>, <<"png">>}

RECURSIVE SeqsUpTo(_, _)
SeqsUpTo(S, n) ==
  IF n = 0 THEN {<<>>}
  ELSE LET shorter == SeqsUpTo(S, n - 1)
       IN  shorter \cup {Append(q, x) : q \in shorter, x \in S}

\* e.target.files
FileLists == SeqsUpTo(FileNames, MaxFiles)

\* String.prototype.toLowerCase, on the parts used here
ToLowerCase(part) ==
  CASE part = "JPG" -> "jpg"
    [] part = "PNG" -> "png"
    [] OTHER -> part

AllowedExts == {"jpg", "jpeg", "png", "webp"}

\* file.name.split('.').pop()?.toLowerCase()
ExtOf(name) == ToLowerCase(name[Len(name)])

\* ext && [...].includes(ext)
IsValid(name) == ExtOf(name) # "" /\ ExtOf(name) \in AllowedExts

\* `File type .${ext} not supported'
FileTypeError(name) == <<"File type .", ExtOf(name), " not supported">>

FailedToCheckText == <<"Failed to check connection">>
FailedToPostText == <<"Failed to create post">>

PageNames == {"Villa Page"}
\* response.data.detail of the connection check and of the post
ServerDetails == {<<"Token expired">>}
PostDetails == {<<"Post rejected">>}

\* the HTTP status the form reacts to
Unauthorized == 401
ServerError == 500

\* replies to GET /facebook/verify-connection: a body with or without status,
\* page_name and detail; an error response with or without detail; no response
VerifyReplies ==
  {[ok |-> TRUE, status |-> "connected", page_name |-> n] : n \in PageNames}
    \cup {[ok |-> TRUE, status |-> "no_page_selected", detail |-> d] : d \in ServerDetails}
    \cup {[ok |-> TRUE], [ok |-> FALSE]}
    \cup {[ok |-> FALSE, http |-> ServerError, detail |-> d] : d \in ServerDetails}

\* replies to POST /api/posts: the created post; an error response with or
\* without detail; no response
PostReplies ==
  {[ok |-> TRUE]}
    \cup {[ok |-> FALSE, http |-> h, detail |-> d] :
            h \in {Unauthorized, ServerError}, d \in PostDetails}
    \cup {[ok |-> FALSE, http |-> Unauthorized], [ok |-> FALSE]}

\* axiosError.response?.data?.detail || fallback
DetailOr(reply, fallback) == IF Has(reply, "detail") THEN reply.detail ELSE fallback

\* the form after it has mounted: the effect has started checkConnection
PostCreatorInit ==
  /\ content = <<>>
  /\ images = <<>>
  /\ isPosting = FALSE
  /\ connection = [status |-> "loading"]
  /\ pending = <<[call |-> "verify", origin |-> "effect"]>>
  /\ posts = <<>>

----------------------------------------------------------------------------
(* The integration page: pages, replies of the server *)

\* the pages the OAuth callback lists in the URL
Pages == {[id |-> "p1", name |-> "Villa Page"], [id |-> "p2", name |-> "Farm Page"]}
CallbackPages == <<[id |-> "p1", name |-> "Villa Page"], [id |-> "p2", name |-> "Farm Page"]>>

\* res.data.posts where the body has it
ServerPostLists == {<<>>, <<[text |-> <<"Open house">>]>>}

\* replies to GET /facebook/status: connected with or without posts, not
\* connected, a failure
StatusReplies ==
  {[ok |-> TRUE, connected |-> TRUE, page_name |-> pg.name, page_id |-> pg.id, posts |-> l] :
     pg \in {[id |-> "p1", name |-> "Villa Page"]}, l \in ServerPostLists}
    \cup {[ok |-> TRUE, connected |-> TRUE, page_name |-> "Villa Page", page_id |-> "p1"],
          [ok |-> TRUE, connected |-> FALSE],
          [ok |-> FALSE]}

\* replies to POST /facebook/select-page: the page the server has stored, a failure
SelectReplies ==
  {[ok |-> TRUE, page_name |-> pg.name, page_id |-> pg.id] : pg \in Pages}
    \cup {[ok |-> FALSE]}

\* replies to POST /facebook/disconnect, and to the post form's POST /api/posts
PlainReplies == {[ok |-> TRUE], [ok |-> FALSE]}

\* res.data.posts || []
PostsOf(reply) == IF Has(reply, "posts") THEN reply.posts ELSE <<>>

\* the page after it has mounted: checkStatus has been started
PageInit ==
  /\ status = "disconnected"
  /\ isLoading = TRUE
  /\ availablePages = <<>>
  /\ pageInfo = EmptyObj
  /\ requests = <<[call |-> "status", from |-> "checkStatus"]>>

----------------------------------------------------------------------------
(* State after the components have mounted and the channel has opened *)

AppInit ==
  /\ messages = <<[from |-> "assistant", text |-> GreetingText]>>
  /\ input = <<>>
  /\ showDetailsForm = FALSE
  /\ workflowState = EmptyObj
  /\ loadingStates = EmptyObj
  /\ sent = <<>>

Init == AppInit /\ PostCreatorInit /\ PageInit

----------------------------------------------------------------------------
(* ws.onmessage *)

\* a faulty variant: the data replaces the workflow state instead of merging
CaseUpdate_Replace(msg) ==
  /\ loadingStates' = SpreadSet(loadingStates, StepOf(msg), FALSE)
  /\ workflowState' = DataOf(msg)
  /\ UNCHANGED <<messages, input, showDetailsForm, sent>>

\* a faulty variant: a key that is already stored keeps its first value
CaseUpdate_FirstWins(msg) ==
  /\ loadingStates' = SpreadSet(loadingStates, StepOf(msg), FALSE)
  /\ workflowState' = Spread(DataOf(msg), workflowState)
  /\ UNCHANGED <<messages, input, showDetailsForm, sent>>

CaseUpdate(msg) ==
  /\ loadingStates' = SpreadSet(loadingStates, StepOf(msg), FALSE)
  /\ workflowState' = Spread(workflowState, DataOf(msg))
  /\ UNCHANGED <<messages, input, showDetailsForm, sent>>

CaseRequestInput(msg) ==
  /\ Len(messages) < MaxMessages
  /\ showDetailsForm' = TRUE
  /\ messages' = Append(messages, [from |-> "assistant", text |-> RequestInputText])
  /\ UNCHANGED <<input, workflowState, loadingStates, sent>>

\* a faulty variant: the loading flags are not cleared
CaseError_KeepLoading(msg) ==
  /\ Len(messages) < MaxMessages
  /\ messages' = Append(messages,
                   [from |-> "assistant", text |-> ErrorPrefix \o MessageText(msg)])
  /\ UNCHANGED <<loadingStates, input, showDetailsForm, workflowState, sent>>

\* a faulty variant: the error starts the session over
CaseError_HardReset(msg) ==
  /\ Len(messages) < MaxMessages
  /\ messages' = Append(messages,
                   [from |-> "assistant", text |-> ErrorPrefix \o MessageText(msg)])
  /\ loadingStates' = EmptyObj
  /\ workflowState' = EmptyObj
  /\ showDetailsForm' = FALSE
  /\ UNCHANGED <<input, sent>>

CaseError(msg) ==
  /\ Len(messages) < MaxMessages
  /\ messages' = Append(messages,
                   [from |-> "assistant", text |-> ErrorPrefix \o MessageText(msg)])
  /\ loadingStates' = EmptyObj
  /\ UNCHANGED <<input, showDetailsForm, workflowState, sent>>

\* a faulty variant: every loading flag is dropped
CaseFinal_ClearAll(msg) ==
  /\ Len(messages) < MaxMessages
  /\ messages' = Append(messages, [from |-> "assistant", text |-> FinalText(msg)])
  /\ loadingStates' = EmptyObj
  /\ UNCHANGED <<input, showDetailsForm, workflowState, sent>>

CaseFinal(msg) ==
  /\ Len(messages) < MaxMessages
  /\ messages' = Append(messages, [from |-> "assistant", text |-> FinalText(msg)])
  /\ loadingStates' = SpreadSet(loadingStates, "post_to_facebook", FALSE)
  /\ UNCHANGED <<input, showDetailsForm, workflowState, sent>>

\* the default branch, and the catch block: logged, nothing set
Dropped == UNCHANGED vars

OnMessage(event) ==
  IF event.raw # "object"
  THEN Dropped
  ELSE LET msg == event.obj
           type == TypeOf(msg)
       IN  CASE type = "update"        -> CaseUpdate(msg)
             [] type = "request_input" -> CaseRequestInput(msg)
             [] type = "error"         -> CaseError(msg)
             [] type = "final"         -> CaseFinal(msg)
             [] OTHER                  -> Dropped

----------------------------------------------------------------------------
(* User actions *)

\* a faulty variant: the input and Start are never disabled
InitialInputEnabled_Always == TRUE

\* disabled={Object.keys(workflowState).length > 0}, on the input and on Start
InitialInputEnabled == Cardinality(Keys(workflowState)) = 0

\* the input's onChange
SetInput(value) ==
  /\ InitialInputEnabled
  /\ input' = value
  /\ UNCHANGED <<messages, showDetailsForm, workflowState, loadingStates, sent>>

\* a faulty variant: the three flags are merged into the loading states
handleSendInitialInput_Merge ==
  /\ InitialInputEnabled
  /\ IF Trim(input) = <<>>
     THEN UNCHANGED vars
     ELSE /\ Len(messages) < MaxMessages
          /\ workflowState' = EmptyObj
          /\ showDetailsForm' = FALSE
          /\ messages' = Append(messages, [from |-> "user", text |-> input])
          /\ sent' = Append(sent, [type |-> "initial_input", user_input |-> input])
          /\ input' = <<>>
          /\ loadingStates' =
               Spread(loadingStates,
                      [k \in {"create_branding", "create_visuals", "generate_image"} |-> TRUE])

handleSendInitialInput ==
  /\ InitialInputEnabled
  /\ IF Trim(input) = <<>>
     THEN UNCHANGED vars
     ELSE /\ Len(messages) < MaxMessages
          /\ workflowState' = EmptyObj
          /\ showDetailsForm' = FALSE
          /\ messages' = Append(messages, [from |-> "user", text |-> input])
          /\ sent' = Append(sent, [type |-> "initial_input", user_input |-> input])
          /\ input' = <<>>
          /\ loadingStates' = [k \in {"create_branding", "create_visuals", "generate_image"} |-> TRUE]

\* the form's button: disabled={isLoading}, isLoading={loadingStates.generate_post}
DetailsSubmitEnabled == showDetailsForm /\ ~Truthy(loadingStates, "generate_post")

\* the four inputs are `required': the browser submits only a filled form
RequiredFilled(d) == \A f \in DetailFields : d[f] # ""

\* a faulty variant: the two flags replace the loading states
handleDetailsSubmit_Replace(d) ==
  /\ Len(messages) < MaxMessages
  /\ sent' = Append(sent, [type |-> "details_input", details |-> d])
  /\ showDetailsForm' = FALSE
  /\ messages' = Append(messages, [from |-> "user", text |-> DetailsSentText])
  /\ loadingStates' = [k \in {"generate_post", "post_to_facebook"} |-> TRUE]
  /\ UNCHANGED <<input, workflowState>>

\* a faulty variant: the form stays on the page after it was submitted
handleDetailsSubmit_KeepForm(d) ==
  /\ Len(messages) < MaxMessages
  /\ sent' = Append(sent, [type |-> "details_input", details |-> d])
  /\ messages' = Append(messages, [from |-> "user", text |-> DetailsSentText])
  /\ loadingStates' =
       Spread(loadingStates, [k \in {"generate_post", "post_to_facebook"} |-> TRUE])
  /\ UNCHANGED <<input, workflowState, showDetailsForm>>

handleDetailsSubmit(d) ==
  /\ Len(messages) < MaxMessages
  /\ sent' = Append(sent, [type |-> "details_input", details |-> d])
  /\ showDetailsForm' = FALSE
  /\ messages' = Append(messages, [from |-> "user", text |-> DetailsSentText])
  /\ loadingStates' =
       Spread(loadingStates, [k \in {"generate_post", "post_to_facebook"} |-> TRUE])
  /\ UNCHANGED <<input, workflowState>>

\* DetailsForm.handleSubmit, with d in the form
DetailsFormSubmit(d) ==
  /\ DetailsSubmitEnabled
  /\ IF RequiredFilled(d) THEN handleDetailsSubmit(d) ELSE UNCHANGED vars

----------------------------------------------------------------------------
(* The other orchestrator (src/App.tsx): ws.onmessage, as what it leaves *)

\* the value undefined, stored under a key
UndefinedValue == "undefined"

\* what the state is after a handler: the three parts the page renders from
Outcome(wf, ls, form) == [workflowState |-> wf, loadingStates |-> ls, showDetailsForm |-> form]

\* Object.keys(data)[0]: the key the JSON text has first, any key of the
\* object since the order of the text is not kept; undefined for no key
FirstKeys(data) == IF Keys(data) = {} THEN {UndefinedKey} ELSE Keys(data)

\* handleWorkflowUpdate(step, data): the flag of the step is cleared and the
\* first key of the data is stored; Object.keys throws on missing data,
\* after the flag was cleared
LegacyHandleWorkflowUpdate(msg) ==
  LET ls == SpreadSet(loadingStates, StepOf(msg), FALSE)
  IN  IF ~Has(msg, "data")
      THEN {Outcome(workflowState, ls, showDetailsForm)}
      ELSE {Outcome(SpreadSet(workflowState, stateKey,
                              IF stateKey \in Keys(msg.data)
                              THEN msg.data[stateKey] ELSE UndefinedValue),
                    ls, showDetailsForm) : stateKey \in FirstKeys(msg.data)}

\* the switch on msg.type of the other orchestrator: no `final' case, and
\* the `error' case leaves the loading states
LegacyOnMessage(msg) ==
  LET type == TypeOf(msg)
  IN  CASE type = "update"        -> LegacyHandleWorkflowUpdate(msg)
        [] type = "request_input" -> {Outcome(workflowState, loadingStates, TRUE)}
        [] type = "error"         -> {Outcome(workflowState, loadingStates, showDetailsForm)}
        [] OTHER                  -> {Outcome(workflowState, loadingStates, showDetailsForm)}

----------------------------------------------------------------------------
(* The post form: checkConnection *)

RemoveAt(seq, i) == SubSeq(seq, 1, i - 1) \o SubSeq(seq, i + 1, Len(seq))

\* the connection state checkConnection sets when its reply has arrived
Checked(reply) ==
  IF reply.ok
  THEN IF Has(reply, "status") /\ reply.status = "connected"
       THEN [status |-> "connected", pageName |-> reply.page_name]
       ELSE LET st == IF Has(reply, "status") THEN reply.status ELSE "disconnected"
            IN  IF Has(reply, "detail")
                THEN [status |-> st, error |-> reply.detail]
                ELSE [status |-> st]
  ELSE [status |-> "error", error |-> DetailOr(reply, FailedToCheckText)]

\* the Retry button is rendered by the `error' and default branches
RetryShown ==
  connection.status \notin {"loading", "connected", "disconnected", "no_page_selected"}

\* the agentId prop has changed: the effect runs checkConnection again, up to its await
AgentIdChanged ==
  /\ Len(pending) < MaxRequests
  /\ connection' = SpreadSet(connection, "status", "loading")
  /\ pending' = Append(pending, [call |-> "verify", origin |-> "effect"])
  /\ UNCHANGED <<content, images, isPosting, posts>>

\* Retry: checkConnection up to its await
Retry ==
  /\ RetryShown
  /\ connection' = SpreadSet(connection, "status", "loading")
  /\ pending' = Append(pending, [call |-> "verify", origin |-> "retry"])
  /\ UNCHANGED <<content, images, isPosting, posts>>

\* the reply to GET /facebook/verify-connection: the rest of checkConnection
\* and, when handleSubmit awaited it, the rest of its catch and its finally
VerifyResponse(i, reply) ==
  /\ pending[i].call = "verify"
  /\ pending' = RemoveAt(pending, i)
  /\ IF pending[i].origin = "submit"
     THEN /\ connection' = SpreadSet(Checked(reply), "error", pending[i].postError)
          /\ isPosting' = FALSE
     ELSE /\ connection' = Checked(reply)
          /\ UNCHANGED isPosting
  /\ UNCHANGED <<content, images, posts>>

----------------------------------------------------------------------------
(* The post form: user actions and handleSubmit *)

\* disabled={connection.status !== 'connected' || isPosting}, textarea and file input
FormEnabled == connection.status = "connected" /\ ~isPosting

\* a faulty variant: the button stays enabled while a post is being sent
SubmitEnabled_WhilePosting == connection.status = "connected" /\ Trim(content) # <<>>

\* disabled={connection.status !== 'connected' || isPosting || !content.trim()}
SubmitEnabled == FormEnabled /\ Trim(content) # <<>>

\* the textarea's onChange
SetContent(value) ==
  /\ FormEnabled
  /\ content' = value
  /\ UNCHANGED <<images, isPosting, connection, pending, posts>>

\* the connection state after the filter has run over the files: one
\* setConnection for each file that is not valid, in order
RECURSIVE AfterRejects(_, _)
AfterRejects(conn, files) ==
  IF files = <<>> THEN conn
  ELSE AfterRejects(IF IsValid(Head(files))
                    THEN conn
                    ELSE SpreadSet(conn, "error", FileTypeError(Head(files))),
                    Tail(files))

handleImageChange(files) ==
  /\ FormEnabled
  /\ images' = SelectSeq(files, IsValid)
  /\ connection' = AfterRejects(connection, files)
  /\ UNCHANGED <<content, isPosting, pending, posts>>

\* the button on a preview
RemoveImage(index) ==
  /\ index \in 1..Len(images)
  /\ images' = RemoveAt(images, index)
  /\ UNCHANGED <<content, isPosting, connection, pending, posts>>

\* handleSubmit up to its await
handleSubmit ==
  IF Trim(content) = <<>> \/ connection.status # "connected"
  THEN UNCHANGED postVars
  ELSE /\ Len(posts) < MaxPosts
       /\ isPosting' = TRUE
       /\ connection' = Without(connection, "error")
       /\ pending' = Append(pending, [call |-> "post", text |-> content,
                                      images |-> images, closurePosts |-> posts])
       /\ UNCHANGED <<content, images, posts>>

\* a faulty variant: the content is checked neither by the button nor by the handler
PostFormSubmit_NoContentCheck ==
  IF ~FormEnabled
  THEN UNCHANGED postVars
  ELSE /\ Len(posts) < MaxPosts
       /\ isPosting' = TRUE
       /\ connection' = Without(connection, "error")
       /\ pending' = Append(pending, [call |-> "post", text |-> content,
                                      images |-> images, closurePosts |-> posts])
       /\ UNCHANGED <<content, images, posts>>

\* the user presses Create Post: a disabled button submits nothing
PostFormSubmit == IF SubmitEnabled THEN handleSubmit ELSE UNCHANGED postVars

\* the try block after the await: onNewPost, then the form is cleared
PostCreated(i) ==
  /\ posts' = <<[text |-> pending[i].text]>> \o pending[i].closurePosts
  /\ content' = <<>>
  /\ images' = <<>>
  /\ isPosting' = FALSE
  /\ pending' = RemoveAt(pending, i)
  /\ UNCHANGED connection

\* a faulty variant: the error is set without waiting for the re-check
PostFailed_NoAwait(i, reply) ==
  /\ connection' =
       SpreadSet(IF Has(reply, "http") /\ reply.http = Unauthorized
                 THEN SpreadSet(connection, "status", "loading")
                 ELSE connection,
                 "error", DetailOr(reply, FailedToPostText))
  /\ pending' =
       IF Has(reply, "http") /\ reply.http = Unauthorized
       THEN Append(RemoveAt(pending, i), [call |-> "verify", origin |-> "retry"])
       ELSE RemoveAt(pending, i)
  /\ isPosting' = FALSE
  /\ UNCHANGED <<content, images, posts>>

\* the catch block: on a 401 checkConnection is started and awaited, with the
\* error text kept for when it ends; otherwise the error is set and the finally runs
PostFailed(i, reply) ==
  IF Has(reply, "http") /\ reply.http = Unauthorized
  THEN /\ connection' = SpreadSet(connection, "status", "loading")
       /\ pending' = Append(RemoveAt(pending, i),
                       [call |-> "verify", origin |-> "submit",
                        postError |-> DetailOr(reply, FailedToPostText)])
       /\ UNCHANGED <<content, images, isPosting, posts>>
  ELSE /\ connection' = SpreadSet(connection, "error", DetailOr(reply, FailedToPostText))
       /\ pending' = RemoveAt(pending, i)
       /\ isPosting' = FALSE
       /\ UNCHANGED <<content, images, posts>>

\* the reply to POST /api/posts
PostResponse(i, reply) ==
  /\ pending[i].call = "post"
  /\ IF reply.ok THEN PostCreated(i) ELSE PostFailed(i, reply)

----------------------------------------------------------------------------
(* The integration page *)

\* the effect that reads ?pages= from the URL, which runs when the page mounts
OAuthCallback ==
  /\ PageInit
  /\ availablePages' = CallbackPages
  /\ UNCHANGED <<status, isLoading, pageInfo, requests, posts>>

\* the agent id of the route has changed: the effect runs checkStatus again
PageAgentIdChanged ==
  /\ Len(requests) < MaxRequests
  /\ requests' = Append(requests, [call |-> "status", from |-> "checkStatus"])
  /\ UNCHANGED <<status, isLoading, availablePages, pageInfo, posts>>

\* checkStatus after its await
StatusResponse(i, reply) ==
  /\ requests[i] = [call |-> "status", from |-> "checkStatus"]
  /\ requests' = RemoveAt(requests, i)
  /\ isLoading' = FALSE
  /\ IF reply.ok
     THEN /\ status' = IF reply.connected THEN "connected" ELSE "disconnected"
          /\ IF reply.connected
             THEN /\ posts' = PostsOf(reply)
                  /\ pageInfo' = [name |-> reply.page_name, id |-> reply.page_id]
             ELSE UNCHANGED <<posts, pageInfo>>
     ELSE UNCHANGED <<status, posts, pageInfo>>
  /\ UNCHANGED availablePages

\* the Disconnect button of the connection panel: rendered while connected,
\* disabled={isLoading}
DisconnectEnabled == status = "connected" /\ ~isLoading

\* handleDisconnect up to its await
handleDisconnect ==
  /\ DisconnectEnabled
  /\ Len(requests) < MaxRequests
  /\ isLoading' = TRUE
  /\ requests' = Append(requests, [call |-> "disconnect"])
  /\ UNCHANGED <<status, availablePages, pageInfo, posts>>

\* handleDisconnect after its await
DisconnectResponse(i, reply) ==
  /\ requests[i].call = "disconnect"
  /\ requests' = RemoveAt(requests, i)
  /\ isLoading' = FALSE
  /\ IF reply.ok
     THEN /\ status' = "disconnected"
          /\ posts' = <<>>
          /\ pageInfo' = EmptyObj
     ELSE UNCHANGED <<status, posts, pageInfo>>
  /\ UNCHANGED availablePages

\* handlePageSelect up to its first await; the buttons of the page selector
\* are rendered while there are available pages and are never disabled
handlePageSelect(page) ==
  /\ \E n \in 1..Len(availablePages) : availablePages[n] = page
  /\ Len(requests) < MaxRequests
  /\ isLoading' = TRUE
  /\ requests' = Append(requests, [call |-> "select-page", page |-> page])
  /\ UNCHANGED <<status, availablePages, pageInfo, posts>>

\* handlePageSelect between its two awaits, or its catch and finally
SelectResponse(i, reply) ==
  /\ requests[i].call = "select-page"
  /\ IF reply.ok
     THEN /\ status' = "connected"
          /\ pageInfo' = [name |-> reply.page_name, id |-> reply.page_id]
          /\ availablePages' = <<>>
          /\ requests' = Append(RemoveAt(requests, i),
                            [call |-> "status", from |-> "handlePageSelect"])
          /\ UNCHANGED isLoading
     ELSE /\ requests' = RemoveAt(requests, i)
          /\ isLoading' = FALSE
          /\ UNCHANGED <<status, pageInfo, availablePages>>
  /\ UNCHANGED posts

\* a faulty variant: the refresh leaves the displayed posts
RefreshResponse_KeepPosts(i, reply) ==
  /\ requests[i] = [call |-> "status", from |-> "handlePageSelect"]
  /\ requests' = RemoveAt(requests, i)
  /\ isLoading' = FALSE
  /\ UNCHANGED <<posts, status, availablePages, pageInfo>>

\* handlePageSelect after its second await
RefreshResponse(i, reply) ==
  /\ requests[i] = [call |-> "status", from |-> "handlePageSelect"]
  /\ requests' = RemoveAt(requests, i)
  /\ isLoading' = FALSE
  /\ IF reply.ok
     THEN posts' = PostsOf(reply)
     ELSE UNCHANGED posts
  /\ UNCHANGED <<status, availablePages, pageInfo>>

\* the post form, rendered while connected, has been submitted: its handler
\* holds the onNewPost of this render, with this render's posts
PostCreatorSubmitted ==
  /\ status = "connected"
  /\ Len(requests) < MaxRequests
  /\ Len(posts) < MaxPosts
  /\ requests' = Append(requests, [call |-> "post", closurePosts |-> posts])
  /\ UNCHANGED <<status, isLoading, availablePages, pageInfo, posts>>

\* onNewPost={(newPost) => setPosts([newPost, ...posts])}
onNewPost(i) ==
  posts' = <<[text |-> <<"Sea view">>]>> \o requests[i].closurePosts

\* the post form's request has been answered: a created post is reported
PostCreatorAnswered(i, reply) ==
  /\ requests[i].call = "post"
  /\ requests' = RemoveAt(requests, i)
  /\ IF reply.ok THEN onNewPost(i) ELSE UNCHANGED posts
  /\ UNCHANGED <<status, isLoading, availablePages, pageInfo>>

----------------------------------------------------------------------------

Next ==
  \/ \E event \in Payloads : OnMessage(event) /\ UNCHANGED <<postVars, pageVars>>
  \/ \E value \in InputTexts : SetInput(value) /\ UNCHANGED <<postVars, pageVars>>
  \/ handleSendInitialInput /\ UNCHANGED <<postVars, pageVars>>
  \/ \E d \in DetailsInputs : DetailsFormSubmit(d) /\ UNCHANGED <<postVars, pageVars>>

Spec == Init /\ [][Next]_allVars

PostCreatorNext ==
  \/ \E i \in 1..Len(pending), reply \in VerifyReplies :
       VerifyResponse(i, reply) /\ UNCHANGED <<vars, pageVars>>
  \/ AgentIdChanged /\ UNCHANGED <<vars, pageVars>>
  \/ Retry /\ UNCHANGED <<vars, pageVars>>
  \/ \E value \in ContentTexts : SetContent(value) /\ UNCHANGED <<vars, pageVars>>
  \/ \E files \in FileLists : handleImageChange(files) /\ UNCHANGED <<vars, pageVars>>
  \/ \E index \in 1..MaxFiles : RemoveImage(index) /\ UNCHANGED <<vars, pageVars>>
  \/ PostFormSubmit /\ UNCHANGED <<vars, pageVars>>
  \/ \E i \in 1..Len(pending), reply \in PostReplies :
       PostResponse(i, reply) /\ UNCHANGED <<vars, pageVars>>

SpecPostCreator == Init /\ [][PostCreatorNext]_allVars

otherPostVars == <<content, images, isPosting, connection, pending>>

PageNext ==
  \/ OAuthCallback /\ UNCHANGED <<vars, otherPostVars>>
  \/ PageAgentIdChanged /\ UNCHANGED <<vars, otherPostVars>>
  \/ \E i \in 1..Len(requests), reply \in StatusReplies :
       StatusResponse(i, reply) /\ UNCHANGED <<vars, otherPostVars>>
  \/ handleDisconnect /\ UNCHANGED <<vars, otherPostVars>>
  \/ \E i \in 1..Len(requests), reply \in PlainReplies :
       DisconnectResponse(i, reply) /\ UNCHANGED <<vars, otherPostVars>>
  \/ \E page \in Pages : handlePageSelect(page) /\ UNCHANGED <<vars, otherPostVars>>
  \/ \E i \in 1..Len(requests), reply \in SelectReplies :
       SelectResponse(i, reply) /\ UNCHANGED <<vars, otherPostVars>>
  \/ \E i \in 1..Len(requests), reply \in StatusReplies :
       RefreshResponse(i, reply) /\ UNCHANGED <<vars, otherPostVars>>
  \/ PostCreatorSubmitted /\ UNCHANGED <<vars, otherPostVars>>
  \/ \E i \in 1..Len(requests), reply \in PlainReplies :
       PostCreatorAnswered(i, reply) /\ UNCHANGED <<vars, otherPostVars>>

SpecPage == Init /\ [][PageNext]_allVars

\* The chat page and the post form share no state and are used one at a
\* time: a behaviour follows one of the two from the initial state.
FormsNext ==
  \/ PostCreatorInit /\ Next
  \/ AppInit /\ PostCreatorNext

SpecForms == Init /\ [][FormsNext]_allVars

----------------------------------------------------------------------------
(* Vocabulary of the properties *)

Event(m) == [raw |-> "object", obj |-> m]
UpdateEvents == {Event(m) : m \in UpdateMsgs}
ErrorEvents == {Event(m) : m \in ErrorMsgs}
FinalEvents == {Event(m) : m \in FinalMsgs}
RequestInputEvents == {Event(m) : m \in RequestInputMsgs}

\* what a loading flag reads as: "unset" and "false" are both falsy
Flag(ls, k) == IF k \notin DOMAIN ls THEN "unset" ELSE IF ls[k] THEN "true" ELSE "false"
LoadingStages(ls) == {k \in Stages : Truthy(ls, k)}
OtherFlagsKept(k) ==
  \A j \in (DOMAIN loadingStates \cup DOMAIN loadingStates' \cup Stages) \ {k} :
    Flag(loadingStates', j) = Flag(loadingStates, j)

\* what a workflow key reads as
AllWfKeys == WfKeys \cup {StageKey(st) : st \in Stages}
WfRead(wf, key) == IF key \in DOMAIN wf THEN <<wf[key]>> ELSE <<>>
WfKept(key) == WfRead(workflowState', key) = WfRead(workflowState, key)

Last(seq) == seq[Len(seq)]
AppendsOne(old, new) == Len(new) = Len(old) + 1 /\ SubSeq(new, 1, Len(old)) = old
IsErrorMessage(m) == m.from = "assistant" /\ Head(m.text) = Head(ErrorPrefix)

----------------------------------------------------------------------------
(* C1 *)

\* C1 as stated: an update event {step: S, data: D} leaves the loading flag of
\* S false, keeps every other loading flag, and changes no workflow value but
\* the one of stage S.
C1_UpdateChangesOnlyStageValue ==
  [][\A ev \in UpdateEvents : OnMessage(ev) =>
       /\ Flag(loadingStates', ev.obj.step) = "false"
       /\ OtherFlagsKept(ev.obj.step)
       /\ \A key \in AllWfKeys \ {StageKey(ev.obj.step)} : WfKept(key)]_vars

\* C1, amended: an update event {step: S, data: D} leaves the loading flag of
\* S false, keeps every other loading flag, gives every key of D the value D
\* has for it, and keeps every workflow key that is not a key of D.
C1_UpdateMergesData ==
  [][\A ev \in UpdateEvents : OnMessage(ev) =>
       /\ Flag(loadingStates', ev.obj.step) = "false"
       /\ OtherFlagsKept(ev.obj.step)
       /\ \A key \in AllWfKeys :
            IF key \in DOMAIN ev.obj.data
            THEN WfRead(workflowState', key) = <<ev.obj.data[key]>>
            ELSE WfKept(key)]_vars

\* after an initial input, an update for create_branding has arrived: the
\* branding flag is off, the suggestions are stored, the other two flags are on
C1_Witness ==
  /\ Len(sent) = 1
  /\ Flag(loadingStates, "create_branding") = "false"
  /\ Flag(loadingStates, "create_visuals") = "true"
  /\ Flag(loadingStates, "generate_image") = "true"
  /\ DOMAIN workflowState = {"brand_suggestions", "image_path"}

----------------------------------------------------------------------------
(* C2 *)

\* C2: an error event leaves no loading flag true and appends exactly one
\* message, from the assistant, that carries the error text.
C2_ErrorClearsFlagsAppendsOne ==
  [][\A ev \in ErrorEvents : OnMessage(ev) =>
       /\ \A k \in DOMAIN loadingStates' \cup Stages : ~Truthy(loadingStates', k)
       /\ AppendsOne(messages, messages')
       /\ Last(messages').from = "assistant"
       /\ \E i \in 1..Len(Last(messages').text) :
            Last(messages').text[i] = ev.obj.message]_vars

\* an error has arrived after the details were submitted
C2_Witness ==
  /\ Len(sent) = 1
  /\ Last(sent).type = "details_input"
  /\ IsErrorMessage(Last(messages))
  /\ LoadingStages(loadingStates) = {}

----------------------------------------------------------------------------
(* C3 *)

MalformedEvents ==
  {[raw |-> "not-json"], [raw |-> "null"]}
    \cup {Event(m) : m \in UnknownMsgs \cup MalformedUpdateMsgs}

\* C3: a payload that is not one of the four tagged messages (not JSON, no
\* known type, or a required field missing) changes neither the workflow
\* state, nor the loading flags, nor the messages, nor the form's visibility.
C3_MalformedDropped ==
  [][\A ev \in MalformedEvents : OnMessage(ev) =>
       /\ workflowState' = workflowState
       /\ \A k \in Stages : Truthy(loadingStates', k) = Truthy(loadingStates, k)
       /\ messages' = messages
       /\ showDetailsForm' = showDetailsForm]_vars

----------------------------------------------------------------------------
(* C4 *)

\* C4: a final event appends exactly one assistant message, leaves the
\* post_to_facebook flag false, and changes neither the workflow state nor
\* any other loading flag.
C4_FinalAppendsAndClearsPublish ==
  [][\A ev \in FinalEvents : OnMessage(ev) =>
       /\ AppendsOne(messages, messages')
       /\ Last(messages').from = "assistant"
       /\ Flag(loadingStates', "post_to_facebook") = "false"
       /\ OtherFlagsKept("post_to_facebook")
       /\ workflowState' = workflowState]_vars

\* a final event has arrived while the post was still being generated
C4_Witness ==
  /\ Last(messages) = [from |-> "assistant", text |-> AllDoneText]
  /\ Flag(loadingStates, "post_to_facebook") = "false"
  /\ Flag(loadingStates, "generate_post") = "true"
  /\ Len(sent) > 0

----------------------------------------------------------------------------
(* C5 *)

\* C5: sending a non-blank initial input makes exactly one send, of
\* {type: "initial_input", user_input}, appends exactly one user message with
\* that text, and leaves exactly create_branding, create_visuals and
\* generate_image loading.
C5_InitialInputSendsOnce ==
  [][(handleSendInitialInput /\ Trim(input) # <<>>) =>
       /\ AppendsOne(sent, sent')
       /\ Last(sent') = [type |-> "initial_input", user_input |-> input]
       /\ AppendsOne(messages, messages')
       /\ Last(messages') = [from |-> "user", text |-> input]
       /\ LoadingStages(loadingStates') =
            {"create_branding", "create_visuals", "generate_image"}]_vars

\* an initial input has just been sent
C5_Witness ==
  /\ Len(sent) = 1
  /\ Last(sent).type = "initial_input"
  /\ Last(messages).from = "user"
  /\ LoadingStages(loadingStates) = {"create_branding", "create_visuals", "generate_image"}

----------------------------------------------------------------------------
(* C6 *)

\* C6: a request_input event shows the details form and appends one assistant
\* message; submitting the form then makes exactly one send, of
\* {type: "details_input", details}, hides the form, and sets the
\* generate_post and post_to_facebook flags, keeping every other flag.
C6_RequestThenDetails ==
  [][/\ \A ev \in RequestInputEvents : OnMessage(ev) =>
          /\ showDetailsForm'
          /\ AppendsOne(messages, messages')
          /\ Last(messages').from = "assistant"
     /\ \A d \in DetailsInputs : (RequiredFilled(d) /\ DetailsFormSubmit(d)) =>
          /\ showDetailsForm
          /\ AppendsOne(sent, sent')
          /\ Last(sent') = [type |-> "details_input", details |-> d]
          /\ ~showDetailsForm'
          /\ Flag(loadingStates', "generate_post") = "true"
          /\ Flag(loadingStates', "post_to_facebook") = "true"
          /\ \A k \in (DOMAIN loadingStates \cup DOMAIN loadingStates' \cup Stages)
                        \ {"generate_post", "post_to_facebook"} :
               Flag(loadingStates', k) = Flag(loadingStates, k)]_vars

\* the details were submitted after branding had finished and the image had not
C6_Witness ==
  /\ Len(sent) = 2
  /\ Last(sent).type = "details_input"
  /\ ~showDetailsForm
  /\ Flag(loadingStates, "create_branding") = "false"
  /\ Flag(loadingStates, "generate_image") = "true"
  /\ Flag(loadingStates, "generate_post") = "true"

----------------------------------------------------------------------------
(* C7 *)

\* C7: a loading flag that is true stops being true only in an update event
\* that names its stage, in a final event (the post_to_facebook flag), or in
\* an error event; never in a user action.
C7_FlagsClearedOnlyByEvents ==
  [][\A k \in Stages :
       (Truthy(loadingStates, k) /\ ~Truthy(loadingStates', k)) =>
          \/ \E ev \in Payloads :
               /\ ev.raw = "object"
               /\ TypeOf(ev.obj) = "update"
               /\ StepOf(ev.obj) = k
               /\ OnMessage(ev)
          \/ k = "post_to_facebook" /\ \E ev \in FinalEvents : OnMessage(ev)
          \/ \E ev \in Payloads :
               ev.raw = "object" /\ TypeOf(ev.obj) = "error" /\ OnMessage(ev)]_vars

----------------------------------------------------------------------------
(* C8 *)

\* C8: no step removes a key from the workflow state.
C8_WorkflowKeysOnlyGrow ==
  [][Keys(workflowState) \subseteq Keys(workflowState')]_vars

\* results have arrived in a session that sent two initial inputs
C8_Witness ==
  /\ Len(sent) = 2
  /\ \A i \in 1..2 : sent[i].type = "initial_input"
  /\ Keys(workflowState) = WfKeys

----------------------------------------------------------------------------
(* C9 *)

ErrorSeen == \E i \in 1..Len(messages) : IsErrorMessage(messages[i])

\* C9: once an error event has been handled, the initial input or the
\* details form can still be used.
C9_InteractableAfterError ==
  ErrorSeen => (InitialInputEnabled \/ DetailsSubmitEnabled)

----------------------------------------------------------------------------
(* C10 *)

\* C10: an error event changes neither the workflow state nor the visibility
\* of the details form.
C10_ErrorKeepsWorkflowAndForm ==
  [][\A ev \in Payloads :
       (ev.raw = "object" /\ TypeOf(ev.obj) = "error" /\ OnMessage(ev)) =>
          /\ workflowState' = workflowState
          /\ showDetailsForm' = showDetailsForm]_vars

\* an error has arrived while results were stored and the form was shown
C10_Witness ==
  /\ IsErrorMessage(Last(messages))
  /\ Keys(workflowState) # {}
  /\ showDetailsForm

----------------------------------------------------------------------------
(* C11 *)

PostsInFlight == {i \in 1..Len(pending) : pending[i].call = "post"}

\* C11: a submission with a blank required field sends nothing and changes
\* nothing: a blank or whitespace-only initial input, a details form with an
\* empty field, blank or whitespace-only post content.
C11_BlankSubmitsNothing ==
  [][/\ (Trim(input) = <<>> /\ handleSendInitialInput) =>
          sent' = sent /\ UNCHANGED <<vars, pageVars>>
     /\ \A d \in DetailsInputs : (~RequiredFilled(d) /\ DetailsFormSubmit(d)) =>
          sent' = sent /\ UNCHANGED <<vars, pageVars>>
     /\ (Trim(content) = <<>> /\ PostFormSubmit) =>
          pending' = pending /\ UNCHANGED postVars]_allVars

\* the page is connected and the post box holds a blank; the idea box is untouched
C11_Witness ==
  /\ connection.status = "connected"
  /\ ~isPosting
  /\ content = <<" ">>
  /\ PostsInFlight = {}
  /\ input = <<>>
  /\ sent = <<>>

----------------------------------------------------------------------------
(* C12 *)

\* a name has an extension when a dot comes before its last part
HasAllowedExtension(name) ==
  Len(name) >= 2 /\ ToLowerCase(Last(name)) \in AllowedExts

\* the errors the connection state holds
ErrorsHeld(conn) == IF Has(conn, "error") THEN {conn.error} ELSE {}

\* C12: for every list of selected files, the image list becomes the sub-list
\* of the files whose lower-cased extension is allowed, and the state holds
\* the error of every rejected file.
C12_FilterKeepsEveryError ==
  [][\A files \in FileLists : handleImageChange(files) =>
       /\ images' = SelectSeq(files, HasAllowedExtension)
       /\ \A i \in 1..Len(files) :
            ~HasAllowedExtension(files[i]) =>
               FileTypeError(files[i]) \in ErrorsHeld(connection')]_allVars

----------------------------------------------------------------------------
(* C13 *)

\* C13: while the status is not `connected' or a post is being sent, the
\* textarea, the file input and the submit button are disabled; a POST
\* /api/posts is issued only in a step that starts with the status
\* `connected'; and at most one POST /api/posts is in flight.
C13_OnePostWhileConnected ==
  /\ [](/\ (connection.status # "connected" \/ PostsInFlight # {}) =>
             (~FormEnabled /\ ~SubmitEnabled)
        /\ Cardinality(PostsInFlight) <= 1)
  /\ [][Cardinality(PostsInFlight') > Cardinality(PostsInFlight) =>
          connection.status = "connected"]_allVars

\* a post is being sent
C13_Witness ==
  /\ Cardinality(PostsInFlight) = 1
  /\ connection.status = "connected"
  /\ isPosting

----------------------------------------------------------------------------
(* C14 *)

VerifiesInFlight == {i \in 1..Len(pending) : pending[i].call = "verify"}
\* the connection check that handleSubmit has started and waits for
RechecksInFlight == {i \in VerifiesInFlight : pending[i].origin = "submit"}
PostErrors == PostDetails \cup {FailedToPostText}
FailedPostReplies == {reply \in PostReplies : ~reply.ok}
IsUnauthorized(reply) == Has(reply, "http") /\ reply.http = Unauthorized

\* handleSubmit has not ended although its POST has been answered
AwaitingRecheck == isPosting /\ PostsInFlight = {}

\* C14: a POST /api/posts that fails with 401 starts a connection check and
\* surfaces no post error yet; while the handler waits, that check is in
\* flight and no post error is held; the handler ends in the step that
\* answers the check, and then the post error is held.  A POST that fails
\* otherwise surfaces the post error at once and issues no request.
C14_RecheckBeforeError ==
  /\ [](AwaitingRecheck =>
          (RechecksInFlight # {} /\ ErrorsHeld(connection) \cap PostErrors = {}))
  /\ [][/\ \A i \in 1..Len(pending), reply \in FailedPostReplies :
             PostResponse(i, reply) =>
               IF IsUnauthorized(reply)
               THEN /\ Cardinality(VerifiesInFlight') = Cardinality(VerifiesInFlight) + 1
                    /\ RechecksInFlight' # {}
                    /\ AwaitingRecheck'
                    /\ ErrorsHeld(connection') \cap PostErrors = {}
               ELSE /\ Len(pending') = Len(pending) - 1
                    /\ ~isPosting'
                    /\ ErrorsHeld(connection') = {DetailOr(reply, FailedToPostText)}
        /\ (AwaitingRecheck /\ ~AwaitingRecheck') =>
             /\ RechecksInFlight' = {}
             /\ PostsInFlight' = {}
             /\ ErrorsHeld(connection') # {}
             /\ ErrorsHeld(connection') \subseteq PostErrors]_allVars

\* a post has failed with 401 and the form waits for the re-check
C14_Witness ==
  /\ AwaitingRecheck
  /\ connection.status = "loading"
  /\ Cardinality(RechecksInFlight) = 1
  /\ content = <<"Sea view">>

----------------------------------------------------------------------------
(* C15 *)

FailedVerifyReplies == {reply \in VerifyReplies : ~reply.ok}
PageNameOf(conn) == IF Has(conn, "pageName") THEN <<conn.pageName>> ELSE <<>>

\* C15, for the calls of the post form: when the connection check or the
\* post creation fails, an error message is held (the server's detail or
\* the fallback), and the page name and the post list are what they were;
\* a failed post creation that starts no re-check also leaves the status.
C15_FailureKeepsPriorState ==
  [][/\ \A i \in 1..Len(pending), reply \in FailedVerifyReplies :
          VerifyResponse(i, reply) =>
             /\ ErrorsHeld(connection') # {}
             /\ PageNameOf(connection') = PageNameOf(connection)
             /\ posts' = posts
     /\ \A i \in 1..Len(pending), reply \in FailedPostReplies :
          (~IsUnauthorized(reply) /\ PostResponse(i, reply)) =>
             /\ ErrorsHeld(connection') = {DetailOr(reply, FailedToPostText)}
             /\ connection'.status = connection.status
             /\ PageNameOf(connection') = PageNameOf(connection)
             /\ posts' = posts]_allVars

----------------------------------------------------------------------------
(* C16 *)

RefreshesInFlight(reqs) ==
  {i \in 1..Len(reqs) : reqs[i] = [call |-> "status", from |-> "handlePageSelect"]}

\* C16: a select-page POST that succeeds leaves the status `connected', the
\* page info that of the response and no available page, and issues a GET
\* /facebook/status; when that GET succeeds its posts become the post list.
\* A disconnect POST that succeeds leaves the status `disconnected'.
C16_SelectThenRefresh ==
  [][/\ \A i \in 1..Len(requests), reply \in SelectReplies :
          (reply.ok /\ SelectResponse(i, reply)) =>
             /\ status' = "connected"
             /\ pageInfo' = [name |-> reply.page_name, id |-> reply.page_id]
             /\ availablePages' = <<>>
             /\ Cardinality(RefreshesInFlight(requests')) =
                  Cardinality(RefreshesInFlight(requests)) + 1
     /\ \A i \in 1..Len(requests), reply \in StatusReplies :
          (reply.ok /\ RefreshResponse(i, reply)) => posts' = PostsOf(reply)
     /\ \A i \in 1..Len(requests) :
          DisconnectResponse(i, [ok |-> TRUE]) => status' = "disconnected"]_allVars

\* a page was selected and the refresh has brought its posts
C16_Witness ==
  /\ status = "connected"
  /\ pageInfo = [name |-> "Farm Page", id |-> "p2"]
  /\ availablePages = <<>>
  /\ posts = <<[text |-> <<"Open house">>]>>
  /\ requests = <<>>
  /\ ~isLoading

----------------------------------------------------------------------------
(* C17 *)

\* C17: an update event that carries a workflow key an earlier update has
\* already stored overwrites it: afterwards the key holds the value of the
\* event that arrived later, whatever was stored, and the loading flag of the
\* later event's stage is false.
C17_LaterUpdateWins ==
  [][\A ev \in UpdateEvents : OnMessage(ev) =>
       /\ \A key \in DOMAIN ev.obj.data \cap DOMAIN workflowState :
            workflowState'[key] = ev.obj.data[key]
       /\ ~Truthy(loadingStates', ev.obj.step)]_vars

\* the suggestions "v2" have arrived after the update that carried "v1"
\* together with the image path
C17_Witness ==
  /\ DOMAIN workflowState = {"brand_suggestions", "image_path"}
  /\ workflowState["brand_suggestions"] = "v2"
  /\ Flag(loadingStates, "create_branding") = "false"

----------------------------------------------------------------------------
(* C18 *)

SentOfType(t) == {i \in 1..Len(sent) : sent[i].type = t}

\* C18: a session sends at most one initial_input event.
C18_OneInitialInput ==
  Cardinality(SentOfType("initial_input")) <= 1

----------------------------------------------------------------------------
(* C19 *)

\* the request_input events received: each one appended its message
RequestInputsReceived ==
  {i \in 1..Len(messages) :
     messages[i] = [from |-> "assistant", text |-> RequestInputText]}

\* C19: the client has sent at most as many details_input events as it has
\* received request_input events.
C19_DetailsAtMostRequests ==
  Cardinality(SentOfType("details_input")) <= Cardinality(RequestInputsReceived)

\* the details were sent once, after the only request for them
C19_Witness ==
  /\ Cardinality(SentOfType("details_input")) = 1
  /\ Cardinality(RequestInputsReceived) = 1
  /\ ~showDetailsForm

----------------------------------------------------------------------------
(* C20 *)

FinalTexts == {FinalText(m) : m \in FinalMsgs}

\* a final event was handled and the user has done nothing since
FinalIsLatest ==
  /\ Last(messages).from = "assistant"
  /\ Last(messages).text \in FinalTexts
  /\ input = <<>>

\* C20: once a final event has been handled and the user has done nothing
\* since, no loading flag is true.
C20_NothingLoadingAfterFinal ==
  FinalIsLatest => LoadingStages(loadingStates) = {}

----------------------------------------------------------------------------
(* C21 *)

\* C21: on the integration page, when no request is in flight and the status
\* is `disconnected', the page info is empty and the post list is empty.
C21_DisconnectedShowsNothing ==
  (requests = <<>> /\ status = "disconnected") =>
     (pageInfo = EmptyObj /\ posts = <<>>)

----------------------------------------------------------------------------
(* C22 *)

\* the disconnect and select-page requests in flight, a select-page being
\* in flight until its follow-up status refresh is answered
ChangesInFlight ==
  {i \in 1..Len(requests) :
     \/ requests[i].call \in {"disconnect", "select-page"}
     \/ requests[i] = [call |-> "status", from |-> "handlePageSelect"]}

\* C22: on the integration page, isLoading is true while a disconnect or a
\* select-page request, or the status refresh that follows it, is in flight.
C22_LoadingWhileChanging ==
  ChangesInFlight # {} => isLoading

----------------------------------------------------------------------------
(* C23 *)

ComparedEvents == UpdateEvents \cup RequestInputEvents \cup ErrorEvents

\* C23: from any reachable state, an update, request_input or error event
\* leaves this orchestrator with the workflow state, the loading stages and
\* the form visibility that the other orchestrator is left with.
C23_SameOutcomeAsOther ==
  [][\A ev \in ComparedEvents : OnMessage(ev) =>
       \E out \in LegacyOnMessage(ev.obj) :
          /\ out.workflowState = workflowState'
          /\ LoadingStages(out.loadingStates) = LoadingStages(loadingStates')
          /\ out.showDetailsForm = showDetailsForm']_allVars

====
